---- MODULE Spec2Model ----
(***************************************************************************)
(* Model of jnrh2023:                                                      *)
(*   - trajopt_kine.py: the script that builds the trajectory NLP, solves  *)
(*     it with the external solver (casadi Opti + ipopt), falls back to    *)
(*     the debug iterate, and plays the trajectory in the viewer;          *)
(*   - utils/generate.py: the scanner that cuts "jupyter_snippet" blocks   *)
(*     out of the scripts.                                                 *)
(*                                                                         *)
(* Configuration vectors have dimension NQ = 1 here and live in 0..MaxQ;  *)
(* placements are the 1-D translation group, so the logarithm of          *)
(* inverse(M(q)) * Mtarget is Mtarget - M(q).  The kinematic model (FK)    *)
(* is an input: any function from configurations to placements.           *)
(* The values the solver holds are opaque: IterCfg(i, v) is "the value of  *)
(* decision variable v at solver iterate i".                              *)
(***************************************************************************)
EXTENDS Integers, Sequences, FiniteSets, TLC

\* ---------------------------------------------------------------- bounds
MaxT == 2
MaxQ == 1
MaxW == 1
MaxIter == 2
MaxLines == 4

\* ------------------------------------------------------ program constants
\* w_run = .1 and w_term = 1, both scaled by 10 to stay in the integers
W_RUN == 1
W_TERM == 10

VARIABLES
  \* hyper parameters and robot model (trajopt_kine.py 32-40)
  T, q0, Mtarget, w_run, w_term, FK,
  \* main script: position, NLP and solver
  pc, opti, var_qs, totalcost, t, solver, acc, sol_qs, stdout,
  \* viewer, pinocchio data, the log of viewer/kinematics/sleep calls
  viz, data, log,
  \* displayScene activation and displayTraj loop index
  dpc, dq, ddt, dret, k,
  \* generate.py
  gpc, lines, pos, fileno, dest, content, written, cells, raised, nbWritten

hyper == <<T, q0, Mtarget, w_run, w_term, FK>>
nlp == <<opti, var_qs, totalcost, t>>
scene == <<dpc, dq, ddt, dret>>
view == <<viz, data, log>>
genvars ==
  <<gpc, lines, pos, fileno, dest, content, written, cells, raised, nbWritten>>
runvars == <<hyper, pc, nlp, solver, acc, sol_qs, stdout, view, scene, k>>
vars == <<runvars, genvars>>

Q == 0..MaxQ
Place == 0..MaxQ
Horizons == 0..MaxT
Weights == 0..MaxW

\* ------------------------------------------------------------ value shapes
NumCfg(n) == [kind |-> "num", a |-> n, b |-> 0]
IterCfg(i, v) == [kind |-> "iterate", a |-> i, b |-> v]
NumPlace(p) == [kind |-> "place", a |-> p, b |-> 0]
Millis(ms) == [kind |-> "dt", a |-> ms, b |-> 0]
NoneVal == [kind |-> "none", a |-> 0, b |-> 0]
Ev(op, arg) == [op |-> op, arg |-> arg]

\* pin.framesForwardKinematics(model, data, q); data.oMf[idTool]
ForwardKinematics(q) ==
  IF q.kind = "num" THEN NumPlace(FK[q.a])
  ELSE [kind |-> "fk", a |-> q.a, b |-> q.b]

\* casadi.sumsqr on a vector of dimension 1
SumSqr(x) == x * x

\* error_tool: log6(oMf[idTool].inverse() * Mtarget).vector
ErrorTool(q) == Mtarget - FK[q]

EmptyOpti ==
  [nvar |-> 0, constraints |-> <<>>, objective |-> <<>>, minimized |-> FALSE,
   backend |-> "none", callback |-> FALSE]

IdleSolver == [iter |-> 0, status |-> "none", calls |-> 0, ncb |-> 0]

\* ------------------------------------------------------------------- Init
NoDest == [file |-> 0, name |-> ""]

GenIdle ==
  /\ gpc = "off" /\ lines = <<>> /\ pos = 0 /\ fileno = 0
  /\ dest = NoDest /\ content = <<>>
  /\ written = <<>> /\ cells = <<>> /\ raised = "None" /\ nbWritten = FALSE

RunInit(Wr, Wt) ==
  /\ T \in Horizons /\ q0 \in Q /\ Mtarget \in Place
  /\ w_run \in Wr /\ w_term \in Wt
  /\ FK \in [Q -> Place]
  /\ pc = "L39"
  /\ opti = EmptyOpti /\ var_qs = <<>> /\ totalcost = <<>> /\ t = 0
  /\ solver = IdleSolver /\ acc = <<>> /\ sol_qs = <<>> /\ stdout = <<>>
  /\ viz = [q |-> NoneVal, objs |-> {}, box |-> NoneVal, tip |-> NoneVal]
  /\ data = NoneVal /\ log = <<>>
  /\ dpc = "idle" /\ dq = NumCfg(0) /\ ddt = 0 /\ dret = "none" /\ k = 0

Init == RunInit({W_RUN}, {W_TERM}) /\ GenIdle

\* ------------------------------------------------- set-up (lines 39 to 59)
\* robot.q0 = q0; viz.display(robot.q0); sleep(.3); print; the two addBox
Setup ==
  /\ pc = "L39"
  /\ viz' = [q |-> NumCfg(q0), objs |-> {"world/box", "world/blue"},
             box |-> NoneVal, tip |-> NoneVal]
  /\ log' = log \o <<Ev("display", NumCfg(q0)), Ev("sleep", Millis(300))>>
  /\ stdout' = Append(stdout, "Let's go to pdes ... with casadi")
  /\ pc' = "L88"
  /\ UNCHANGED <<hyper, nlp, solver, acc, sol_qs, data, scene, k, genvars>>

\* ------------------------------------------------------ PROBLEM (88 to 95)
NewOpti ==
  /\ pc = "L88"
  /\ opti' = EmptyOpti
  /\ pc' = "L89"
  /\ UNCHANGED <<hyper, var_qs, totalcost, t, solver, acc, sol_qs, stdout,
                 view, scene, k, genvars>>

\* var_qs = [ opti.variable(model.nq) for t in range(T+1) ]
DeclaredVars == [i \in 1..(T + 1) |-> opti.nvar + i - 1]

DeclareVars ==
  /\ pc = "L89"
  /\ var_qs' = DeclaredVars
  /\ opti' = [opti EXCEPT !.nvar = @ + T + 1]
  /\ pc' = "L90"
  /\ UNCHANGED <<hyper, totalcost, t, solver, acc, sol_qs, stdout,
                 view, scene, k, genvars>>

InitCost ==
  /\ pc = "L90"
  /\ totalcost' = <<>>
  /\ pc' = "L91"
  /\ UNCHANGED <<hyper, opti, var_qs, t, solver, acc, sol_qs, stdout,
                 view, scene, k, genvars>>

\* var_qs[0] == robot.q0
InitialConstraint == [var |-> var_qs[1], val |-> q0]

SubjectTo ==
  /\ pc = "L91"
  /\ opti' = [opti EXCEPT !.constraints = Append(@, InitialConstraint)]
  /\ t' = 0
  /\ pc' = "L93"
  /\ UNCHANGED <<hyper, var_qs, totalcost, solver, acc, sol_qs, stdout,
                 view, scene, k, genvars>>

\* mutant: the difference of a decision vector with itself
RunningTermSelf(i) ==
  [kind |-> "step", w |-> w_run, a |-> var_qs[i + 1], b |-> var_qs[i + 1]]

\* mutant: the running cost weighted by w_term
RunningTermTermWeight(i) ==
  [kind |-> "step", w |-> w_term, a |-> var_qs[i + 1], b |-> var_qs[i + 2]]

\* w_run * casadi.sumsqr( var_qs[t] - var_qs[t+1] )
RunningTerm(i) ==
  [kind |-> "step", w |-> w_run, a |-> var_qs[i + 1], b |-> var_qs[i + 2]]

\* for t in range(T): totalcost += ...
RunningCost ==
  /\ pc = "L93"
  /\ t < T
  /\ totalcost' = Append(totalcost, RunningTerm(t))
  /\ t' = t + 1
  /\ UNCHANGED <<hyper, pc, opti, var_qs, solver, acc, sol_qs, stdout,
                 view, scene, k, genvars>>

\* mutant: the terminal cost on the first decision vector
TerminalTermFirst ==
  [kind |-> "term", w |-> w_term, a |-> var_qs[1], b |-> var_qs[1]]

\* w_term * casadi.sumsqr( error_tool(var_qs[T]) )
TerminalTerm ==
  [kind |-> "term", w |-> w_term, a |-> var_qs[T + 1], b |-> var_qs[T + 1]]

TerminalCost ==
  /\ pc = "L93"
  /\ ~(t < T)
  /\ totalcost' = Append(totalcost, TerminalTerm)
  /\ pc' = "L98"
  /\ UNCHANGED <<hyper, opti, var_qs, t, solver, acc, sol_qs, stdout,
                 view, scene, k, genvars>>

\* -------------------------------------------------------- SOLVE (98 to 100)
Minimize ==
  /\ pc = "L98"
  /\ opti' = [opti EXCEPT !.objective = totalcost, !.minimized = TRUE]
  /\ pc' = "L99"
  /\ UNCHANGED <<hyper, var_qs, totalcost, t, solver, acc, sol_qs, stdout,
                 view, scene, k, genvars>>

SetSolver ==
  /\ pc = "L99"
  /\ opti' = [opti EXCEPT !.backend = "ipopt"]
  /\ pc' = "L100"
  /\ UNCHANGED <<hyper, var_qs, totalcost, t, solver, acc, sol_qs, stdout,
                 view, scene, k, genvars>>

\* opti.callback(lambda i: displayScene(opti.debug.value(var_qs[-1])))
RegisteredCallback == TRUE

SetCallback ==
  /\ pc = "L100"
  /\ opti' = [opti EXCEPT !.callback = RegisteredCallback]
  /\ pc' = "L105"
  /\ UNCHANGED <<hyper, var_qs, totalcost, t, solver, acc, sol_qs, stdout,
                 view, scene, k, genvars>>

Problem ==
  \/ Setup \/ NewOpti \/ DeclareVars \/ InitCost \/ SubjectTo
  \/ RunningCost \/ TerminalCost \/ Minimize

Configure == SetSolver \/ SetCallback

\* ------------------------------------------- displayScene (lines 60 to 72)
\* the statement that follows statement p of displayScene's body
SceneStepAfter(p) ==
  CASE p = "fk" -> "box"
    [] p = "box" -> "tip"
    [] p = "tip" -> "disp"
    [] p = "disp" -> "sleep"
    [] p = "sleep" -> "idle"

\* pin.framesForwardKinematics(model,data,q)
DS_FK ==
  /\ dpc = "fk"
  /\ data' = ForwardKinematics(dq)
  /\ log' = Append(log, Ev("fk", dq))
  /\ dpc' = SceneStepAfter(dpc)
  /\ UNCHANGED <<hyper, pc, nlp, solver, acc, sol_qs, stdout, viz,
                 dq, ddt, dret, k, genvars>>

\* viz.applyConfiguration(boxID, Mtarget)
DS_Box ==
  /\ dpc = "box"
  /\ viz' = [viz EXCEPT !.box = NumPlace(Mtarget)]
  /\ log' = Append(log, Ev("box", NumPlace(Mtarget)))
  /\ dpc' = SceneStepAfter(dpc)
  /\ UNCHANGED <<hyper, pc, nlp, solver, acc, sol_qs, stdout, data,
                 dq, ddt, dret, k, genvars>>

\* M = data.oMf[idTool]; viz.applyConfiguration(tipID, M)
DS_Tip ==
  /\ dpc = "tip"
  /\ viz' = [viz EXCEPT !.tip = data]
  /\ log' = Append(log, Ev("tip", data))
  /\ dpc' = SceneStepAfter(dpc)
  /\ UNCHANGED <<hyper, pc, nlp, solver, acc, sol_qs, stdout, data,
                 dq, ddt, dret, k, genvars>>

\* viz.display(q)
DS_Display ==
  /\ dpc = "disp"
  /\ viz' = [viz EXCEPT !.q = dq]
  /\ log' = Append(log, Ev("display", dq))
  /\ dpc' = SceneStepAfter(dpc)
  /\ UNCHANGED <<hyper, pc, nlp, solver, acc, sol_qs, stdout, data,
                 dq, ddt, dret, k, genvars>>

\* time.sleep(dt), then the return to the caller: the solver's iteration
\* loop, line 113 after line 112, or displayTraj's loop
DS_Sleep ==
  /\ dpc = "sleep"
  /\ log' = Append(log, Ev("sleep", Millis(ddt)))
  /\ dpc' = SceneStepAfter(dpc)
  /\ dret' = "none"
  /\ IF dret = "L112" THEN pc' = "L113" /\ k' = 0 ELSE UNCHANGED <<pc, k>>
  /\ UNCHANGED <<hyper, nlp, solver, acc, sol_qs, stdout, viz, data,
                 dq, ddt, genvars>>

DisplayScene == DS_FK \/ DS_Box \/ DS_Tip \/ DS_Display \/ DS_Sleep

\* ------------------------------------------------- the solve (lines 104-109)
\* opti.value(v) and opti.debug.value(v): the solver's latest value of v
LatestValue(s, v) == IterCfg(s.iter, v)

\* mutant: the callback reads the first decision vector
CallbackArgFirst(s) == LatestValue(s, var_qs[1])

\* the argument of the registered callback: opti.debug.value(var_qs[-1])
CallbackArg(s) == LatestValue(s, var_qs[Len(var_qs)])

\* solve_limited() returns when the solver converged or stopped on one of
\* its limits (accept_limit), and raises on every other return status
SolveLimitedReturns(status) == status \in {"converged", "limit"}

SolveCall ==
  /\ pc = "L105"
  /\ solver' = [solver EXCEPT !.iter = 0, !.status = "running", !.calls = @ + 1]
  /\ pc' = "solving"
  /\ UNCHANGED <<hyper, nlp, acc, sol_qs, stdout, view, scene, k, genvars>>

\* one iteration of the solver, which ends by calling the registered callback
SolverIterate ==
  /\ pc = "solving" /\ dpc = "idle"
  /\ solver.iter < MaxIter
  /\ LET s == [solver EXCEPT !.iter = @ + 1] IN
       IF opti.callback
       THEN /\ solver' = [s EXCEPT !.ncb = @ + 1]
            /\ dpc' = "fk" /\ dq' = CallbackArg(s) /\ ddt' = 100
            /\ dret' = "callback"
       ELSE /\ solver' = s
            /\ UNCHANGED scene
  /\ UNCHANGED <<hyper, pc, nlp, acc, sol_qs, stdout, view, k, genvars>>

\* the solver stops with a return status; solve_limited returns or raises
SolverEnd ==
  /\ pc = "solving" /\ dpc = "idle"
  /\ \E status \in {"converged", "limit", "failed"} :
       /\ solver' = [solver EXCEPT !.status = status]
       /\ IF SolveLimitedReturns(status)
          THEN pc' = "L106" /\ acc' = <<>>
          ELSE pc' = "L108" /\ UNCHANGED acc
  /\ UNCHANGED <<hyper, nlp, sol_qs, stdout, view, scene, k, genvars>>

\* sol_qs = [ opti.value(var_q) for var_q in var_qs ]: one more element
ExtractValue ==
  /\ pc = "L106"
  /\ Len(acc) < Len(var_qs)
  /\ acc' = Append(acc, [via |-> "value",
                         val |-> LatestValue(solver, var_qs[Len(acc) + 1])])
  /\ UNCHANGED <<hyper, pc, nlp, solver, sol_qs, stdout, view, scene, k, genvars>>

\* opti.value raises: the partial list is dropped, sol_qs is not assigned
ExtractRaise ==
  /\ pc = "L106"
  /\ Len(acc) < Len(var_qs)
  /\ acc' = <<>>
  /\ pc' = "L108"
  /\ UNCHANGED <<hyper, nlp, solver, sol_qs, stdout, view, scene, k, genvars>>

ExtractDone ==
  /\ pc = "L106"
  /\ ~(Len(acc) < Len(var_qs))
  /\ sol_qs' = acc
  /\ pc' = "L111"
  /\ UNCHANGED <<hyper, nlp, solver, acc, stdout, view, scene, k, genvars>>

\* except: print('ERROR in convergence, plotting debug info.')
ExceptPrint ==
  /\ pc = "L108"
  /\ stdout' = Append(stdout, "ERROR in convergence, plotting debug info.")
  /\ pc' = "L109"
  /\ UNCHANGED <<hyper, nlp, solver, acc, sol_qs, view, scene, k, genvars>>

\* mutant: the fallback keeps a converged value for the first vector
DebugValuesMixed ==
  [i \in 1..Len(var_qs) |->
     [via |-> IF i = 1 THEN "value" ELSE "debug",
      val |-> LatestValue(solver, var_qs[i])]]

\* mutant: the fallback iterates var_qs[1:]
DebugValuesShort ==
  [i \in 1..(Len(var_qs) - 1) |->
     [via |-> "debug", val |-> LatestValue(solver, var_qs[i + 1])]]

\* sol_qs = [ opti.debug.value(var_q) for var_q in var_qs ]
DebugValues ==
  [i \in 1..Len(var_qs) |->
     [via |-> "debug", val |-> LatestValue(solver, var_qs[i])]]

\* mutant: a retry of the solve after the fallback
AfterFallbackRetry == "L105"

\* the statement after the except block's list comprehension
AfterFallback == "L111"

ExceptFallback ==
  /\ pc = "L109"
  /\ sol_qs' = DebugValues
  /\ pc' = AfterFallback
  /\ UNCHANGED <<hyper, nlp, solver, acc, stdout, view, scene, k, genvars>>

\* --------------------------------------------- the display (lines 111-113)
PrintDisplay ==
  /\ pc = "L111"
  /\ stdout' = Append(stdout, "***** Display the resulting trajectory ...")
  /\ pc' = "L112"
  /\ UNCHANGED <<hyper, nlp, solver, acc, sol_qs, view, scene, k, genvars>>

\* displayScene(robot.q0,1)
ShowStart ==
  /\ pc = "L112" /\ dpc = "idle"
  /\ dpc' = "fk" /\ dq' = NumCfg(q0) /\ ddt' = 1000 /\ dret' = "L112"
  /\ pc' = "L112call"
  /\ UNCHANGED <<hyper, nlp, solver, acc, sol_qs, stdout, view, k, genvars>>

\* mutant: the whole list, index 0 included
TrajSliceAll(qs) == qs

\* qs[1:]
TrajSlice(qs) == SubSeq(qs, 2, Len(qs))

\* displayTraj: for q in qs[1:]: displayScene(q,dt=dt), with dt=1e-2
TrajFrame ==
  /\ pc = "L113" /\ dpc = "idle"
  /\ k < Len(TrajSlice(sol_qs))
  /\ k' = k + 1
  /\ dpc' = "fk" /\ dq' = TrajSlice(sol_qs)[k + 1].val /\ ddt' = 10
  /\ dret' = "traj"
  /\ UNCHANGED <<hyper, pc, nlp, solver, acc, sol_qs, stdout, view, genvars>>

TrajEnd ==
  /\ pc = "L113" /\ dpc = "idle"
  /\ ~(k < Len(TrajSlice(sol_qs)))
  /\ pc' = "done"
  /\ UNCHANGED <<hyper, nlp, solver, acc, sol_qs, stdout, view, scene, k, genvars>>

Solve ==
  \/ SolveCall \/ SolverIterate \/ SolverEnd
  \/ ExtractValue \/ ExtractRaise \/ ExtractDone
  \/ ExceptPrint \/ ExceptFallback

Display == PrintDisplay \/ ShowStart \/ TrajFrame \/ TrajEnd \/ DisplayScene

Next == Problem \/ Configure \/ Solve \/ Display

Spec == Init /\ [][Next]_vars

\* -------------------------------------------------- the meaning of the NLP
\* the decision variables, and the points the objective is evaluated at
VarIds == {var_qs[i] : i \in 1..Len(var_qs)}
Assignments == [VarIds -> Q]

\* one summand of totalcost at the point x
TermValue(term, x) ==
  IF term.kind = "step"
  THEN term.w * SumSqr(x[term.a] - x[term.b])
  ELSE term.w * SumSqr(ErrorTool(x[term.a]))

RECURSIVE EvalExpr(_, _)
EvalExpr(e, x) ==
  IF e = <<>> THEN 0 ELSE TermValue(Head(e), x) + EvalExpr(Tail(e), x)

\* opti.minimize(totalcost): the objective at x
Objective(x) == EvalExpr(opti.objective, x)

\* opti.subject_to: x satisfies every constraint
Feasible(x) ==
  \A i \in 1..Len(opti.constraints) :
    x[opti.constraints[i].var] = opti.constraints[i].val

FeasibleSet == {x \in Assignments : Feasible(x)}

\* the solutions of the NLP
Minimizers ==
  LET values == {Objective(y) : y \in FeasibleSet}
  IN {x \in FeasibleSet : \A v \in values : Objective(x) <= v}

\* the PROBLEM section for every choice of the weights
BuildInit == RunInit(Weights, Weights) /\ GenIdle

SpecBuild == BuildInit /\ [][Problem]_vars

\* ------------------------------------------------ utils/generate.py, generate
(***************************************************************************)
(* The *.py files of the folder are one stream of lines, NextFile standing *)
(* between the last line of a file and the first line of the next one.     *)
(*   "# %jupyter_snippet 1", "# %jupyter_snippet 2": opening markers       *)
(*   "# %jupyter_snippet": an opening marker with no third word            *)
(*   "# %end_jupyter_snippet": the end marker                              *)
(*   "# %end_jupyter_snippet 1": not an end marker (line.strip() differs)  *)
(*   "x = 1": any other line                                               *)
(* A notebook cell is its "%load <dest>" first line (load) and the lines   *)
(* after it (body); a cell with no source has empty = TRUE.                *)
(***************************************************************************)
NextFile == "<next file>"

LineKinds ==
  {"# %jupyter_snippet 1", "# %jupyter_snippet 2", "# %jupyter_snippet",
   "# %end_jupyter_snippet", "# %end_jupyter_snippet 1", "x = 1", NextFile}

\* any([f"# %{hashtag}" in line for hashtag in hashtags])
IsOpenMarker(line) ==
  line \in {"# %jupyter_snippet 1", "# %jupyter_snippet 2", "# %jupyter_snippet"}

\* any([line.strip() == f"# %end_{hashtag}" for hashtag in hashtags])
IsEndMarker(line) == line = "# %end_jupyter_snippet"

\* line.split()[2] exists
HasName(line) == line \in {"# %jupyter_snippet 1", "# %jupyter_snippet 2"}

\* generated / f"{filename.stem}_{line.split()[2]}"
DestOf(file, line) ==
  [file |-> file, name |-> IF line = "# %jupyter_snippet 1" THEN "1" ELSE "2"]

Notebook ==
  << [load |-> [file |-> 1, name |-> "1"], body |-> <<"stale">>, empty |-> FALSE],
     [load |-> NoDest, body |-> <<>>, empty |-> TRUE],
     [load |-> [file |-> 2, name |-> "1"], body |-> <<>>, empty |-> FALSE] >>

RunIdle ==
  /\ T = 0 /\ q0 = 0 /\ Mtarget = 0 /\ w_run = W_RUN /\ w_term = W_TERM
  /\ FK = [q \in Q |-> 0]
  /\ pc = "off"
  /\ opti = EmptyOpti /\ var_qs = <<>> /\ totalcost = <<>> /\ t = 0
  /\ solver = IdleSolver /\ acc = <<>> /\ sol_qs = <<>> /\ stdout = <<>>
  /\ viz = [q |-> NoneVal, objs |-> {}, box |-> NoneVal, tip |-> NoneVal]
  /\ data = NoneVal /\ log = <<>>
  /\ dpc = "idle" /\ dq = NumCfg(0) /\ ddt = 0 /\ dret = "none" /\ k = 0

GenInit ==
  /\ RunIdle
  /\ gpc = "L17"
  /\ lines \in UNION {[1..n -> LineKinds] : n \in 0..MaxLines}
  /\ pos = 0 /\ fileno = 0 /\ dest = NoDest /\ content = <<>>
  /\ written = <<>> /\ cells = <<>> /\ raised = "None" /\ nbWritten = FALSE

\* lines 18 to 23, and 24 to 27 for the first file
GenStart ==
  /\ gpc = "L17"
  /\ cells' = Notebook
  /\ fileno' = 1 /\ content' = <<>> /\ dest' = NoDest
  /\ gpc' = "scan"
  /\ UNCHANGED <<lines, pos, written, raised, nbWritten, runvars>>

Scanning == gpc = "scan" /\ pos < Len(lines)
Current == lines[pos + 1]

\* the file is exhausted: the next filename of the glob, lines 26 and 27
G_NextFile ==
  /\ Scanning /\ Current = NextFile
  /\ fileno' = fileno + 1 /\ content' = <<>> /\ dest' = NoDest
  /\ pos' = pos + 1
  /\ UNCHANGED <<gpc, lines, written, cells, raised, nbWritten, runvars>>

\* lines 30 to 35
G_Open ==
  /\ Scanning /\ IsOpenMarker(Current)
  /\ IF dest # NoDest
     THEN /\ raised' = "SyntaxError" /\ gpc' = "raised"
          /\ UNCHANGED <<dest, pos>>
     ELSE IF ~HasName(Current)
     THEN /\ raised' = "IndexError" /\ gpc' = "raised"
          /\ UNCHANGED <<dest, pos>>
     ELSE /\ dest' = DestOf(fileno, Current)
          /\ pos' = pos + 1
          /\ UNCHANGED <<raised, gpc>>
  /\ UNCHANGED <<lines, fileno, content, written, cells, nbWritten, runvars>>

\* lines 43 to 51: the cells whose first line loads dest get the content
LoadedCells(cs, d, c) ==
  [i \in 1..Len(cs) |->
     IF ~cs[i].empty /\ cs[i].load = d THEN [cs[i] EXCEPT !.body = c] ELSE cs[i]]

\* mutant: content is not reset after the end marker
ClosedContentKept == content

\* content and dest after the end marker, lines 54 and 55
ClosedContent == <<>>

\* lines 36 to 55
G_End ==
  /\ Scanning /\ ~IsOpenMarker(Current) /\ IsEndMarker(Current)
  /\ IF dest = NoDest
     THEN /\ raised' = "SyntaxError" /\ gpc' = "raised"
          /\ UNCHANGED <<dest, pos, content, written, cells>>
     ELSE /\ written' = Append(written, [dest |-> dest, content |-> content])
          /\ cells' = LoadedCells(cells, dest, content)
          /\ content' = ClosedContent
          /\ dest' = NoDest
          /\ pos' = pos + 1
          /\ UNCHANGED <<raised, gpc>>
  /\ UNCHANGED <<lines, fileno, nbWritten, runvars>>

\* the condition of line 56
Collects == dest # NoDest

\* lines 56 and 57, and the line that matches no branch
G_Line ==
  /\ Scanning /\ ~IsOpenMarker(Current) /\ ~IsEndMarker(Current)
  /\ Current # NextFile
  /\ IF Collects
     THEN content' = Append(content, Current)
     ELSE UNCHANGED content
  /\ pos' = pos + 1
  /\ UNCHANGED <<gpc, lines, fileno, dest, written, cells, raised, nbWritten,
                 runvars>>

\* lines 58 and 59
G_WriteNotebook ==
  /\ gpc = "scan" /\ ~(pos < Len(lines))
  /\ nbWritten' = TRUE
  /\ gpc' = "done"
  /\ UNCHANGED <<lines, pos, fileno, dest, content, written, cells, raised,
                 runvars>>

Generate ==
  \/ GenStart \/ G_NextFile \/ G_Open \/ G_End \/ G_Line \/ G_WriteNotebook

SpecGen == GenInit /\ [][Generate]_vars

\* ============================================================== generate
PlainLine(line) == ~IsOpenMarker(line) /\ ~IsEndMarker(line) /\ line # NextFile

\* lines[i] opens a block that lines i+1..j-1 fill
BlockBetween(i, j) ==
  /\ IsOpenMarker(lines[i]) /\ HasName(lines[i])
  /\ \A m \in (i + 1)..(j - 1) : PlainLine(lines[m])

EndMarkersRead == {j \in 1..pos : IsEndMarker(lines[j])}

C10_Block ==
  gpc # "L17" =>
    /\ dest = NoDest => content = <<>>
    /\ dest # NoDest =>
         \E i \in 1..pos :
           /\ BlockBetween(i, pos + 1)
           /\ dest = DestOf(fileno, lines[i])
           /\ content = SubSeq(lines, i + 1, pos)
    /\ Len(written) = Cardinality(EndMarkersRead)
    /\ \A w \in 1..Len(written) :
         \E i \in 1..pos, j \in EndMarkersRead :
           /\ i < j /\ BlockBetween(i, j)
           /\ written[w].content = SubSeq(lines, i + 1, j - 1)
           /\ written[w].dest.name = DestOf(0, lines[i]).name
    /\ raised # "None" => gpc = "raised" /\ ~nbWritten
    /\ nbWritten => pos = Len(lines) /\ raised = "None"

C10_Step ==
  /\ gpc # "raised"
  /\ (Scanning /\ IsOpenMarker(Current) /\ dest # NoDest) =>
       raised' = "SyntaxError" /\ gpc' = "raised" /\ written' = written
  /\ (Scanning /\ IsEndMarker(Current) /\ dest = NoDest) =>
       raised' = "SyntaxError" /\ gpc' = "raised" /\ written' = written
  /\ raised' = "SyntaxError" =>
       /\ Scanning
       /\ \/ IsOpenMarker(Current) /\ dest # NoDest
          \/ IsEndMarker(Current) /\ dest = NoDest
  /\ written' # written =>
       /\ Scanning /\ IsEndMarker(Current) /\ dest # NoDest
       /\ written' = Append(written, [dest |-> dest, content |-> content])
       /\ dest' = NoDest /\ content' = <<>>
  /\ (content' # content /\ content' # <<>>) =>
       /\ dest # NoDest /\ dest' = dest /\ PlainLine(Current)
       /\ content' = Append(content, Current)
  /\ nbWritten' # nbWritten => gpc = "scan" /\ pos = Len(lines) /\ raised = "None"

\* C10: the scan of a file is a two-state machine (dest = None / dest set).
\* An opening marker met while a block is open, and an end marker met while
\* none is, raise SyntaxError (and nothing else does); content is empty while
\* closed and is exactly the lines read since the opening marker while open;
\* a file is written only on an end marker, with exactly the lines between
\* the two markers, and the block is then closed with empty content; so a
\* block open at the end of a file is never written; after an exception no
\* step is taken, and the notebook is rewritten only after a full scan.
C10_SnippetBlocks == [][C10_Step]_vars /\ []C10_Block

C10_Witness ==
  /\ raised = "SyntaxError" /\ ~nbWritten /\ pos = 3
  /\ written = << [dest |-> [file |-> 1, name |-> "1"], content |-> <<"x = 1">>] >>
  /\ cells[1].body = <<"x = 1">>
  /\ dest = NoDest /\ content = <<>>

\* ================================================================ the run
PostSolve == {"L111", "L112", "L112call", "L113", "done"}
Diagnostic == "ERROR in convergence, plotting debug info."
Printed(msg) == \E i \in 1..Len(stdout) : stdout[i] = msg
AllVia(qs, how) == \A i \in 1..Len(qs) : qs[i].via = how

\* the driver's state: Built -> Solving -> {Converged, NonConverged}
Phase ==
  CASE pc \in {"L39", "L88", "L89", "L90", "L91", "L93"} -> "Building"
    [] pc \in {"L98", "L99", "L100", "L105"} -> "Built"
    [] pc \in {"solving", "L106"} -> "Solving"
    [] pc \in {"L108", "L109"} -> "NonConverged"
    [] pc \in PostSolve /\ AllVia(sol_qs, "value") -> "Converged"
    [] OTHER -> "NonConverged"

\* C1 as stated: once the solve step has ended, a solver that did not report
\* convergence (it failed, or it stopped on a limit and solve_limited
\* returned) leaves the driver on the non-converged outcome with the
\* diagnostic printed; the converged outcome is reached only when the solver
\* reported convergence.
C1_NoSilentSuccess ==
  pc \in PostSolve =>
    /\ solver.status # "converged" =>
         Phase = "NonConverged" /\ Printed(Diagnostic)
    /\ Phase = "Converged" => solver.status = "converged"

C2_PhaseStep ==
  LET from == Phase
      to == Phase'
  IN /\ \/ from = to
        \/ <<from, to>> \in {<<"Building", "Built">>, <<"Built", "Solving">>,
                             <<"Solving", "Converged">>,
                             <<"Solving", "NonConverged">>}
     /\ solver'.calls # solver.calls =>
          /\ from = "Built" /\ to = "Solving"
          /\ solver'.calls = solver.calls + 1
     /\ from \notin {"Building", "Built"} => UNCHANGED <<opti, var_qs, totalcost>>

C2_Calls ==
  /\ solver.calls <= 1
  /\ Phase \in {"Solving", "Converged", "NonConverged"} => solver.calls = 1
  /\ Phase \in {"Building", "Built"} => solver.calls = 0

\* C2: the phases only move Building -> Built -> Solving -> Converged or
\* NonConverged, solve_limited is called exactly once per run (on the move
\* from Built to Solving), Converged and NonConverged are never left, and
\* the NLP (variables, constraint, objective) is not rebuilt once solving
\* has started.
C2_StateMachine == [][C2_PhaseStep]_vars /\ []C2_Calls

C2_Witness ==
  /\ pc = "done" /\ Phase = "NonConverged" /\ solver.calls = 1
  /\ solver.iter = MaxIter

C3_Step ==
  /\ (pc \in {"solving", "L106"} /\ pc' # pc) => pc' \in {"L106", "L108", "L111"}
  /\ (pc = "L108" /\ pc' # pc) => pc' = "L109"
  /\ (pc = "L109" /\ pc' # pc) =>
       /\ pc' = "L111"
       /\ Len(sol_qs') = Len(var_qs)
       /\ \A i \in 1..Len(var_qs) :
            sol_qs'[i] = [via |-> "debug", val |-> IterCfg(solver.iter, var_qs[i])]

C3_Unmixed ==
  pc \in PostSolve =>
    /\ AllVia(sol_qs, "value") \/ AllVia(sol_qs, "debug")
    /\ Printed(Diagnostic) <=> AllVia(sol_qs, "debug")
    /\ sol_qs # <<>>

C7_Shape ==
  /\ pc \in PostSolve =>
       /\ Len(sol_qs) = T + 1
       /\ \A i \in 1..Len(sol_qs) : sol_qs[i].val = IterCfg(solver.iter, var_qs[i])
  /\ pc \notin {"L39", "L88", "L89"} => Len(var_qs) = T + 1

C7_Frozen ==
  /\ pc \in PostSolve => sol_qs' = sol_qs
  /\ pc \notin {"L39", "L88", "L89"} => var_qs' = var_qs

\* C7: on both paths sol_qs has exactly T+1 elements, element i being the
\* value of decision vector i, and nothing changes it (or var_qs) afterwards.
C7_Length == [][C7_Frozen]_vars /\ []C7_Shape

C7_Witness ==
  /\ pc = "done" /\ T >= 2 /\ AllVia(sol_qs, "value") /\ k = T

C8_Once ==
  /\ solver.ncb = solver.iter
  /\ dret = "callback" =>
       /\ pc = "solving" /\ solver.status = "running"
       /\ dpc # "idle"
       /\ dq = IterCfg(solver.iter, var_qs[T + 1])

C8_Frame ==
  dret = "callback" => UNCHANGED <<opti, var_qs, totalcost, solver, Mtarget, q0>>

\* C8: the callback runs exactly once per solver iteration and only while
\* the solve is in progress; it is handed the solver's current iterate of
\* q_T; and no step of it changes the NLP, the solver's state, Mtarget or q0.
C8_Callback == [][C8_Frame]_vars /\ []C8_Once

C8_Witness ==
  /\ dret = "callback" /\ dpc = "sleep" /\ solver.iter = 2 /\ T >= 1
  /\ viz.q = IterCfg(2, var_qs[T + 1])

\* what one displayScene(q, dt) does, in order
SceneLog(q, ms) ==
  << Ev("fk", q), Ev("box", NumPlace(Mtarget)), Ev("tip", ForwardKinematics(q)),
     Ev("display", q), Ev("sleep", Millis(ms)) >>

RECURSIVE FramesLog(_)
\* the frames of trajectory elements 1..n, in increasing order
FramesLog(n) ==
  IF n = 0 THEN <<>> ELSE FramesLog(n - 1) \o SceneLog(sol_qs[n + 1].val, 10)

\* the calls made after the solve step: all of log but the set-up's two and
\* the five of each callback
PlaybackLog == SubSeq(log, 2 + 5 * solver.ncb + 1, Len(log))

\* C9: after the solve step the run shows q0 once (dt = 1), then the
\* trajectory elements 1..T in increasing order, one frame each and index 0
\* skipped, every frame being forward kinematics, target marker, end-effector
\* marker, display, pause; during playback the calls made so far are a
\* prefix of that sequence.
C9_Playback ==
  /\ pc = "done" => PlaybackLog = SceneLog(NumCfg(q0), 1000) \o FramesLog(T)
  /\ pc = "L113" =>
       /\ k \in 0..T
       /\ dpc = "idle" => PlaybackLog = SceneLog(NumCfg(q0), 1000) \o FramesLog(k)
  /\ pc \in {"L111", "L112"} => PlaybackLog = <<>>

C9_Witness ==
  /\ pc = "done" /\ T >= 2 /\ solver.ncb >= 1
  /\ Len(PlaybackLog) = 5 * (T + 1)

\* ======================================================== the PROBLEM section
\* decision vector number i (0..T) of the point x
At(x, i) == x[var_qs[i + 1]]

RECURSIVE RunSum(_, _)
\* sum over t = 0..n-1 of ||q_t - q_{t+1}||^2
RunSum(x, n) ==
  IF n = 0 THEN 0
  ELSE RunSum(x, n - 1) + (At(x, n - 1) - At(x, n)) * (At(x, n - 1) - At(x, n))

TerminalSq(q) == (Mtarget - FK[q]) * (Mtarget - FK[q])

StepTerms == SelectSeq(opti.objective, LAMBDA e : e.kind = "step")

\* C4: for every horizon T >= 0 the built NLP has exactly T+1 (distinct)
\* decision vectors, exactly one constraint, q_0 == q0, and an objective that
\* is, at every point, w_run * sum_{t<T} ||q_t - q_{t+1}||^2 +
\* w_term * ||poseError(q_T)||^2, with T running terms; for T = 0 the
\* terminal term is on the decision vector that is fixed to q0.
C4_BuiltNLP ==
  opti.minimized =>
    /\ Len(var_qs) = T + 1
    /\ Cardinality(VarIds) = T + 1
    /\ opti.nvar = T + 1
    /\ opti.constraints = << [var |-> var_qs[1], val |-> q0] >>
    /\ Len(StepTerms) = T
    /\ Len(opti.objective) = T + 1
    /\ \A x \in Assignments :
         Objective(x) = w_run * RunSum(x, T) + w_term * TerminalSq(At(x, T))
    /\ (T = 0 => opti.objective[1].a = opti.constraints[1].var)

C4_Witness ==
  /\ pc = "L99" /\ T >= 2 /\ w_run > 0 /\ w_term > 0
  /\ \E x \in FeasibleSet : Objective(x) > 0 /\ RunSum(x, T) > 0

\* C5 as stated: for w_run = 0 every minimizer of the built objective
\* subject to q_0 == q0 has q_t = q0 for all 0 <= t < T.
C5_AsStated ==
  (opti.minimized /\ w_run = 0) =>
    \A x \in Minimizers : \A i \in 0..(T - 1) : At(x, i) = q0

\* C5 amended: for w_run = 0 every minimizer has q_0 = q0 and, when T >= 1,
\* a q_T that minimizes the terminal term alone; q_1..q_{T-1} are free:
\* every feasible point with the same q_T is a minimizer too.
C5_FreeIntermediates ==
  (opti.minimized /\ w_run = 0) =>
    \A x \in Minimizers :
      /\ At(x, 0) = q0
      /\ T >= 1 =>
           \A q \in Q : w_term * TerminalSq(At(x, T)) <= w_term * TerminalSq(q)
      /\ \A y \in FeasibleSet : At(y, T) = At(x, T) => y \in Minimizers

C5_Witness ==
  /\ pc = "L99" /\ w_run = 0 /\ w_term > 0 /\ T >= 2
  /\ \E x \in Minimizers : At(x, 1) # q0

\* C6: for w_term = 0 and w_run > 0 the constant trajectory q_t = q0 is the
\* unique minimizer, its objective is 0, and every trajectory with some
\* q_t # q_{t+1} has a strictly larger objective.
C6_ConstantOptimum ==
  (opti.minimized /\ w_term = 0 /\ w_run > 0) =>
    LET const == [v \in VarIds |-> q0] IN
      /\ Minimizers = {const}
      /\ Objective(const) = 0
      /\ \A x \in Assignments :
           (\E i \in 0..(T - 1) : At(x, i) # At(x, i + 1)) =>
             Objective(x) > Objective(const)

C6_Witness ==
  /\ pc = "L99" /\ w_term = 0 /\ w_run > 0 /\ T >= 2
  /\ Cardinality(FeasibleSet) > 1
  /\ \E x \in FeasibleSet : Objective(x) > 0

====
